---- MODULE Spec2Model ----
(***************************************************************************)
(* Model of bin2uf2.py: bin_to_uf2 converts a raw binary image into a      *)
(* sequence of 512-byte UF2 blocks and writes them to an output file.      *)
(*                                                                         *)
(* Bytes are integers 0..255, byte strings are sequences of bytes.         *)
(* Python integers are unbounded while TLC's are 32-bit signed, so a       *)
(* Python integer that may exceed 2^31 - 1 (addresses, magic numbers,      *)
(* family ids) is the pair <<hi, lo>> standing for hi * 65536 + lo with    *)
(* lo in 0..65535 and hi any natural number; hi > 65535 is a value that    *)
(* does not fit in 32 bits.                                                *)
(***************************************************************************)
EXTENDS Integers, Sequences, FiniteSets, TLC

\* ---------------------------------------------------------------- bounds
MaxFull == 2        \* images hold at most MaxFull whole payloads plus a remainder
MaxPat  == 1        \* fill patterns 0..MaxPat of the image bytes
MaxRuns == 2        \* how many times the script is run in a row

\* ------------------------------------------------------ program constants
UF2_MAGIC_START0    == <<\h0A32, \h4655>>
UF2_MAGIC_START1    == <<\h9E5D, \h5157>>
UF2_MAGIC_END       == <<\h0AB1, \h6F30>>
UF2_FLAG_FAMILY_ID  == <<\h0000, \h2000>>
RP2350_ARM_S_FAMILY == <<\hE48B, \hFF59>>
FLASH_BASE          == <<\h1000, \h0000>>
PAYLOAD_SIZE        == 256
DATA_AREA_SIZE      == 476
BLOCK_SIZE          == 512

\* --------------------------------------------------------- integer helpers
Half == 65536

\* a small non-negative integer as a <<hi, lo>> pair
FromInt(n) == <<n \div Half, n % Half>>

\* Python's a + n for a pair a and a small non-negative integer n: the sum
\* is exact, it never wraps
AddInt(a, n) == <<a[1] + ((a[2] + n) \div Half), (a[2] + n) % Half>>

\* struct.pack's range check of the "I" format: 0 <= v <= 0xFFFFFFFF
FitsU32(v) == v[1] >= 0 /\ v[1] < Half

Pack32BE(v) == <<v[1] \div 256, v[1] % 256, v[2] \div 256, v[2] % 256>>

\* struct.pack("<I", v): four bytes, least significant first
Pack32(v) == <<v[2] % 256, v[2] \div 256, v[1] % 256, v[1] \div 256>>

RECURSIVE PackWords(_)
\* struct.pack("<IIIIIIII", ...): the words in order, each little-endian
PackWords(ws) == IF ws = <<>> THEN <<>> ELSE Pack32(Head(ws)) \o PackWords(Tail(ws))

\* ------------------------------------------------------ byte-string helpers
Zeros(n) == [k \in 1..n |-> 0]

Min(a, b) == IF a < b THEN a ELSE b

SliceShort(s, a, b) == SubSeq(s, Min(a, Len(s)) + 1, Min(b - 1, Len(s)))

\* Python's s[a:b] for 0 <= a <= b: bounds are clamped to len(s)
Slice(s, a, b) == SubSeq(s, Min(a, Len(s)) + 1, Min(b, Len(s)))

Rjust(s, n) == IF Len(s) >= n THEN s ELSE Zeros(n - Len(s)) \o s

\* bytes.ljust(n, b'\x00'): zero bytes appended up to length n, s if longer
Ljust(s, n) == IF Len(s) >= n THEN s ELSE s \o Zeros(n - Len(s))

\* -------------------------------------------------- pieces of bin_to_uf2
NumBlocksFloor(len) == len \div PAYLOAD_SIZE

\* num_blocks = (len(data) + PAYLOAD_SIZE - 1) // PAYLOAD_SIZE
NumBlocks(len) == (len + PAYLOAD_SIZE - 1) \div PAYLOAD_SIZE

InRangeShort(k, n) == k < n - 1

\* for i in range(num_blocks): the loop body runs while i < num_blocks
InRange(k, n) == k < n

ChunkRjust(d, k) == Rjust(Slice(d, k * PAYLOAD_SIZE, (k + 1) * PAYLOAD_SIZE), PAYLOAD_SIZE)

\* chunk = data[i*PAYLOAD_SIZE:(i+1)*PAYLOAD_SIZE].ljust(PAYLOAD_SIZE, b'\x00')
Chunk(d, k) == Ljust(Slice(d, k * PAYLOAD_SIZE, (k + 1) * PAYLOAD_SIZE), PAYLOAD_SIZE)

TargetAddrByBlock(base, k) == AddInt(base, k * BLOCK_SIZE)

\* addr = base_addr + i * PAYLOAD_SIZE
TargetAddr(base, k) == AddInt(base, k * PAYLOAD_SIZE)

\* the eight arguments of the header's struct.pack, in order
HeaderFields(base, fam, k, n) ==
  << UF2_MAGIC_START0, UF2_MAGIC_START1, UF2_FLAG_FAMILY_ID,
     TargetAddr(base, k), FromInt(PAYLOAD_SIZE), FromInt(k), FromInt(n), fam >>

AssembleNoAreaPad(fields, chunk) ==
  PackWords(fields) \o chunk \o Pack32(UF2_MAGIC_END)

\* header, then the chunk, then the data area's padding, then the footer
Assemble(fields, chunk) ==
  PackWords(fields) \o chunk \o Zeros(DATA_AREA_SIZE - PAYLOAD_SIZE)
    \o Pack32(UF2_MAGIC_END)

\* the output path names no file
NoFile == <<-1>>

\* some earlier contents of the output file
Junk == <<1, 2, 3>>

OpenAppend(file) == IF file = NoFile THEN <<>> ELSE file

\* open(output_path, "wb"): the file is created, or truncated to length 0
OpenWb(file) == <<>>

WriteOrderReversed(bs, k) == bs[Len(bs) - k]

\* for block in blocks: the k-th iteration (from 0) takes blocks[k]
WriteOrder(bs, k) == bs[k + 1]

\* ------------------------------------------------------------------ inputs
Rems == {0, 1, 10, 44, 255}
Lens == {q * PAYLOAD_SIZE + r : q \in 0..MaxFull, r \in Rems}

\* byte at offset k of the image with fill pattern p
Fill(p, k) == IF p = 0 THEN 255 ELSE (p * k + k \div PAYLOAD_SIZE) % 256

MkImage(len, p) == [k \in 1..len |-> Fill(p, k - 1)]

Bases == { FLASH_BASE, <<0, 0>>, <<\hFFFF, \hFF00>>, <<\hFFFF, \hFE00>>, <<\hFFFF, \hFD00>>,
           <<\hFFFF, \hFFFF>> }
Families == { RP2350_ARM_S_FAMILY, <<\hFFFF, \hFFFF>> }

\* ------------------------------------------------------------------- state
VARIABLES
  pc,          \* position in bin_to_uf2
  run,         \* number of the current run of the script, from 1
  readable,    \* whether input_path can be opened and read
  image,       \* the bytes of the input file
  base_addr,   \* argument base_addr
  family_id,   \* argument family_id
  data,        \* local data
  num_blocks,  \* local num_blocks
  blocks,      \* local blocks
  i,           \* loop variable of the assembling loop
  w,           \* how many blocks the writing loop has written
  outfile,     \* contents of the file at output_path, NoFile if none
  err,         \* the exception that ended the run, "none" if none
  stdout,      \* the numbers printed by the first print of the last run
  outputs      \* the contents of output_path at the end of each completed run

vars == << pc, run, readable, image, base_addr, family_id, data, num_blocks,
           blocks, i, w, outfile, err, stdout, outputs >>

args == << readable, image, base_addr, family_id >>

Init ==
  /\ pc = "read"
  /\ run = 1
  /\ readable \in BOOLEAN
  /\ \E len \in Lens, p \in 0..MaxPat : image = MkImage(len, p)
  /\ base_addr \in Bases
  /\ family_id \in Families
  /\ data = <<>>
  /\ num_blocks = 0
  /\ blocks = <<>>
  /\ i = 0
  /\ w = 0
  /\ outfile \in {NoFile, Junk}
  /\ err = "none"
  /\ stdout = <<>>
  /\ outputs = <<>>

\* lines 18-19: with open(input_path, "rb") as f: data = f.read()
ReadInput ==
  /\ pc = "read"
  /\ IF readable
       THEN /\ data' = image
            /\ pc' = "count"
            /\ err' = err
       ELSE /\ data' = data
            /\ pc' = "failed"
            /\ err' = "OSError"
  /\ UNCHANGED << run, args, num_blocks, blocks, i, w, outfile, stdout, outputs >>

\* lines 21-22: num_blocks = ...; blocks = []
CountBlocks ==
  /\ pc = "count"
  /\ num_blocks' = NumBlocks(Len(data))
  /\ blocks' = <<>>
  /\ i' = 0
  /\ pc' = "loop"
  /\ UNCHANGED << run, args, data, w, outfile, err, stdout, outputs >>

\* lines 24-47: one iteration of the assembling loop
BuildBlock ==
  /\ pc = "loop"
  /\ InRange(i, num_blocks)
  /\ LET chunk  == Chunk(data, i)
         fields == HeaderFields(base_addr, family_id, i, num_blocks)
         block  == Assemble(fields, chunk)
     IN  IF \E f \in 1..Len(fields) : ~FitsU32(fields[f])
           THEN \* struct.pack raises struct.error
                /\ err' = "struct.error"
                /\ pc' = "failed"
                /\ UNCHANGED << blocks, i >>
           ELSE IF Len(block) # BLOCK_SIZE
             THEN \* assert len(block) == 512
                  /\ err' = "AssertionError"
                  /\ pc' = "failed"
                  /\ UNCHANGED << blocks, i >>
             ELSE /\ blocks' = Append(blocks, block)
                  /\ i' = i + 1
                  /\ UNCHANGED << pc, err >>
  /\ UNCHANGED << run, args, data, num_blocks, w, outfile, stdout, outputs >>

\* line 49: the loop is over, open(output_path, "wb")
OpenOutput ==
  /\ pc = "loop"
  /\ ~InRange(i, num_blocks)
  /\ outfile' = OpenWb(outfile)
  /\ w' = 0
  /\ pc' = "write"
  /\ UNCHANGED << run, args, data, num_blocks, blocks, i, err, stdout, outputs >>

\* lines 50-51: one iteration of the writing loop, f.write(block)
WriteBlock ==
  /\ pc = "write"
  /\ w < Len(blocks)
  /\ outfile' = outfile \o WriteOrder(blocks, w)
  /\ w' = w + 1
  /\ UNCHANGED << pc, run, args, data, num_blocks, blocks, i, err, stdout, outputs >>

\* lines 51-54: the writing loop is over, the file is closed, the report printed
Report ==
  /\ pc = "write"
  /\ w = Len(blocks)
  /\ stdout' = << Len(data), num_blocks, num_blocks * BLOCK_SIZE >>
  /\ outputs' = Append(outputs, outfile)
  /\ pc' = "done"
  /\ UNCHANGED << run, args, data, num_blocks, blocks, i, w, outfile, err >>

\* lines 57-61: the script is run again with the same arguments; the locals
\* of the earlier call are gone, the files are as the earlier run left them
RunAgain ==
  /\ pc \in {"done", "failed"}
  /\ run < MaxRuns
  /\ run' = run + 1
  /\ pc' = "read"
  /\ data' = <<>>
  /\ num_blocks' = 0
  /\ blocks' = <<>>
  /\ i' = 0
  /\ w' = 0
  /\ err' = "none"
  /\ UNCHANGED << args, outfile, stdout, outputs >>

Next ==
  \/ ReadInput
  \/ CountBlocks
  \/ BuildBlock
  \/ OpenOutput
  \/ WriteBlock
  \/ Report
  \/ RunAgain

Spec == Init /\ [][Next]_vars

\* ------------------------------------------------ reading a UF2 file back
\* header word j (from 0) of a block, decoded little-endian to a <<hi, lo>> pair
Word(b, j) == << b[4 * j + 4] * 256 + b[4 * j + 3], b[4 * j + 2] * 256 + b[4 * j + 1] >>

\* the k-th (from 0) 512-byte block of a file
FileBlock(file, k) == SubSeq(file, k * 512 + 1, (k + 1) * 512)

\* bytes 32..287 of a block
PayloadRegion(b) == SubSeq(b, 33, 288)

\* a - b for two pairs whose difference is small
Diff(a, b) == (a[1] - b[1]) * 65536 + (a[2] - b[2])

\* ceil(len / n), by its definition
CeilDiv(len, n) == CHOOSE c \in 0..len : c * n >= len /\ (c - 1) * n < len

RECURSIVE PayloadCat(_, _)
\* the payload regions of the first n blocks of a file, concatenated in order
PayloadCat(file, n) ==
  IF n = 0 THEN <<>>
  ELSE PayloadCat(file, n - 1) \o PayloadRegion(FileBlock(file, n - 1))

\* ------------------------------------------------------------------ claims

\* C1: an image of length L gives exactly ceil(L / 256) blocks: num_blocks is
\* that number, a completed run has assembled and written that many blocks,
\* L = 0 gives no block and a zero-byte file, 1 <= L <= 256 gives one block.
C1_BlockCount ==
  /\ pc \in {"loop", "write", "done"} => num_blocks = CeilDiv(Len(image), 256)
  /\ pc = "done" =>
       /\ Len(blocks) = CeilDiv(Len(image), 256)
       /\ Len(outfile) = 512 * CeilDiv(Len(image), 256)
       /\ stdout[2] = CeilDiv(Len(image), 256)
       /\ Len(image) = 0 => (blocks = <<>> /\ outfile = <<>> /\ stdout[2] = 0)
       /\ (1 <= Len(image) /\ Len(image) <= 256) => Len(blocks) = 1

C1_Witness ==
  /\ pc = "done"
  /\ Len(image) = 2 * 256 + 1
  /\ Len(blocks) = 3

\* what C2 says of the block b at index k of a run with n blocks
HeaderAsClaimed(b, k, n) ==
  /\ Word(b, 0) = <<\h0A32, \h4655>>
  /\ Word(b, 1) = <<\h9E5D, \h5157>>
  /\ Word(b, 2) = <<\h0000, \h2000>>
  /\ Diff(Word(b, 3), base_addr) = k * 256
  /\ Word(b, 4) = <<0, 256>>
  /\ Word(b, 5) = <<0, k>>
  /\ Word(b, 6) = <<0, n>>
  /\ Word(b, 7) = family_id
  /\ SubSeq(b, 509, 512) = <<\h30, \h6F, \hB1, \h0A>>

\* C2: every assembled block at index i has the header words magicStart0,
\* magicStart1, flags, base_addr + i*256, 256, i, num_blocks, family_id and
\* the footer 0x0AB16F30, all little-endian; the numBlocks word of every
\* block of the written file is the number of blocks in the file.
C2_HeaderWords ==
  /\ \A k \in 1..Len(blocks) : HeaderAsClaimed(blocks[k], k - 1, num_blocks)
  /\ pc = "done" =>
       /\ Len(outfile) % 512 = 0
       /\ \A k \in 0..(Len(outfile) \div 512 - 1) :
            HeaderAsClaimed(FileBlock(outfile, k), k, Len(outfile) \div 512)

C2_Witness ==
  /\ pc = "done"
  /\ Len(outfile) = 3 * 512
  /\ base_addr = <<\h1000, 0>>
  /\ Word(FileBlock(outfile, 2), 3) = <<\h1000, \h0200>>
  /\ Word(FileBlock(outfile, 2), 7) = <<\hE48B, \hFF59>>

\* C3: a run whose input is readable fails only on the 512-byte assertion:
\* with base_addr and family_id in 0..2^32-1 no run ends in another error.
C3_NoValueRejected ==
  (readable /\ FitsU32(base_addr) /\ FitsU32(family_id) /\ pc = "failed")
     => err = "AssertionError"

\* C4: every assembled block is 512 bytes, the assertion never fails, and
\* the file of a completed run is 512 * num_blocks bytes long.
C4_BlockSize ==
  /\ \A k \in 1..Len(blocks) : Len(blocks[k]) = 32 + 476 + 4
  /\ err # "AssertionError"
  /\ pc = "done" => Len(outfile) = 512 * num_blocks

C4_Witness ==
  /\ pc = "done"
  /\ Len(blocks) = 3
  /\ Len(outfile) = 1536

\* C5: in the file of a completed run the payload regions (bytes 32..287 of
\* each block) concatenated in index order start with the image, and every
\* byte after the image's length is zero.
C5_RoundTrip ==
  pc = "done" =>
    LET cat == PayloadCat(outfile, Len(outfile) \div 512)
        L   == Len(image)
    IN  /\ Len(cat) >= L
        /\ SubSeq(cat, 1, L) = image
        /\ \A k \in (L + 1)..Len(cat) : cat[k] = 0

C5_Witness ==
  /\ pc = "done"
  /\ Len(image) = 256 + 44
  /\ \E k \in 1..Len(image) : image[k] # 0
  /\ Len(outfile) = 1024

\* C6: every block but the last carries 256 image bytes; the last carries the
\* L - 256*(num_blocks-1) remaining image bytes and then zeros up to 256;
\* when L is a positive multiple of 256 the last block has no padding.
C6_PaddingOnlyLast ==
  \A k \in 1..Len(blocks) :
    LET L    == Len(data)
        orig == IF k < num_blocks THEN 256 ELSE L - 256 * (num_blocks - 1)
        pay  == PayloadRegion(blocks[k])
    IN  /\ orig >= 1 /\ orig <= 256
        /\ SubSeq(pay, 1, orig) = SubSeq(data, 256 * (k - 1) + 1, 256 * (k - 1) + orig)
        /\ \A j \in (orig + 1)..256 : pay[j] = 0
        /\ (L % 256 = 0) => orig = 256

C6_Witness ==
  /\ Len(data) = 512
  /\ Len(blocks) = 2
  /\ num_blocks = 2
  /\ PayloadRegion(blocks[2]) = SubSeq(data, 257, 512)
  /\ \E k \in 257..512 : data[k] # 0

\* C7: the blocks reach the output file in increasing index order: the k-th
\* block of the file has blockNo k, after w writes the file holds exactly the
\* blocks 0..w-1, and a completed run has written each index once.
C7_WriteOrder ==
  pc \in {"write", "done"} =>
    /\ Len(outfile) = 512 * w
    /\ \A k \in 0..(w - 1) :
         /\ Word(FileBlock(outfile, k), 5) = <<0, k>>
         /\ FileBlock(outfile, k) = blocks[k + 1]
    /\ pc = "done" => w = num_blocks

C7_Witness ==
  /\ pc = "write"
  /\ w = 2
  /\ Len(blocks) = 3
  /\ Word(FileBlock(outfile, 1), 5) = <<0, 1>>

\* C8: the runs of the script on the same input and arguments leave the same
\* bytes in the output file, whatever the file held before each run.
C8_Deterministic ==
  \A a, b \in 1..Len(outputs) : outputs[a] = outputs[b]

C8_Witness ==
  /\ Len(outputs) = 2
  /\ run = 2
  /\ pc = "done"
  /\ Len(outputs[2]) = 1024

\* C9: the output file changes only once every block has been assembled
\* and found to be 512 bytes, and a step that fails leaves it as it was.
C9_NoPartialOutput ==
  [][ /\ (outfile' # outfile) =>
           /\ pc \in {"loop", "write"}
           /\ err = "none" /\ err' = "none"
           /\ Len(blocks) = num_blocks
           /\ \A k \in 1..Len(blocks) : Len(blocks[k]) = 512
      /\ (pc' = "failed") => (outfile' = outfile)
      /\ (pc = "failed" /\ pc' = "read") => (outfile' = outfile)
    ]_vars

C9_Witness ==
  /\ pc = "failed"
  /\ err = "struct.error"
  /\ Len(blocks) = 2
  /\ outfile = Junk

\* C10: the blocks' address ranges tile memory from base_addr on: block 0 has
\* targetAddr base_addr, each next block's targetAddr is the previous one's
\* plus its payloadSize, and image byte k lies at address base_addr + k.
C10_Contiguous ==
  /\ Len(blocks) >= 1 => Word(blocks[1], 3) = base_addr
  /\ \A k \in 1..(Len(blocks) - 1) :
       /\ Diff(Word(blocks[k + 1], 3), Word(blocks[k], 3)) = Word(blocks[k], 4)[2]
       /\ Word(blocks[k], 4)[1] = 0
  /\ \A k \in 0..(Len(data) - 1) :
       (k \div 256) < Len(blocks) =>
         LET b == blocks[k \div 256 + 1]
             off == k % 256
         IN  /\ off < Word(b, 4)[2]
             /\ b[32 + off + 1] = data[k + 1]
             /\ Diff(Word(b, 3), base_addr) + off = k

C10_Witness ==
  /\ Len(blocks) = 3
  /\ base_addr = <<\hFFFF, \hFD00>>
  /\ Word(blocks[3], 3) = <<\hFFFF, \hFF00>>

====
